---- MODULE Spec2Model ----
(***************************************************************************)
(* Model of the FPP client (src/src/fppclient/fpp.py, models.py) and of    *)
(* the exception hierarchy (src/src/fpp/exceptions.py).                    *)
(*                                                                         *)
(* One caller drives one FPP object.  A step of the model is what the      *)
(* event loop runs between two suspension points of the coroutines: the    *)
(* call of a public method up to its first real wait, the arrival of the   *)
(* response headers, the arrival of the body, the expiry of the timeout,   *)
(* a transport failure, the end of a backoff sleep.                        *)
(***************************************************************************)
EXTENDS Integers, Sequences, FiniteSets, TLC

VARIABLES
    session,        \* FPP.session: "none", "supplied" or "own" (which object it holds)
    close_session,  \* FPP._close_session
    closed,         \* the session objects on which close() has been awaited
    device,         \* FPP._device: NoDevice or a Device record
    nextId,         \* identity the next constructed Device object gets
    call,           \* public coroutine the caller awaits: "none", "request", "update"
    ustep,          \* key update() is fetching: "none", "system_status", "playlists", "sequences"
    data,           \* the local dict `data` of the running/last update()
    uri,            \* argument of the running request()
    tries,          \* backoff's `tries` of the running request()
    rpc,            \* where the running attempt waits: "idle", "connecting", "reading", "sleeping"
    resp,           \* status and Content-Type of the response being read
    result,         \* how the last public call ended
    issued,         \* history: URIs update() has called request() with, in order
    seen,           \* history: last response received in full, and the try that got it
    before,         \* history: _device when the running/last update() was called
    rets,           \* history: identities returned by the successful update() calls
    inScope,        \* history: the caller is inside `async with`
    inflight,       \* history: URIs of the HTTP exchanges on the wire
    attemptExc,     \* history: what the last finished attempt of request() raised
    prevOk,         \* history: the public call before this one was an update() that returned
    ncalls,         \* number of public calls made so far
    payload,        \* decoding alone: the record type and the dict from_dict is given
    decoded         \* decoding alone: what that from_dict gave

vars == <<session, close_session, closed, device, nextId, call, ustep, data, uri,
          tries, rpc, resp, result, issued, seen, before, rets, inScope, inflight,
          attemptExc, prevOk, ncalls, payload, decoded>>

\* ------------------------------------------------------------------ bounds
MaxCalls == 3

\* backoff.on_exception(..., max_tries=3)
MaxTries == 3

\* ------------------------------------------------------------- JSON values
\* A decoded JSON value is a record [t, v]: t its Python type, v its content.
Null == [t |-> "null", v |-> "null"]
JStr(s) == [t |-> "str", v |-> s]
JInt(n) == [t |-> "int", v |-> n]
JList(q) == [t |-> "list", v |-> q]
JDict(f) == [t |-> "dict", v |-> f]
EmptyFn == [k \in {} |-> Null]

\* Variant of Truthy: `is not None` in place of truth.
Truthy_NotNone(x) == x.t # "null"

\* Python truthiness of a value (`if not (x := ...)`, `if _x := d.get(...)`).
Truthy(x) ==
    CASE x.t = "null" -> FALSE
      [] x.t = "str"  -> x.v # ""
      [] x.t = "int"  -> x.v # 0
      [] x.t = "list" -> Len(x.v) > 0
      [] x.t = "dict" -> DOMAIN x.v # {}

\* The body texts the modelled device sends.
B_VOL1 == "{\"volume\":1}"
B_VOL2 == "{\"volume\":2,\"fppd\":\"running\"}"
B_OBJ0 == "{}"
B_ARR0 == "[]"
B_P1 == "[\"p1\"]"
B_P2 == "[\"p1\",\"p2\"]"
B_S1 == "[\"introA\"]"
B_S2 == "[\"introA\",\"introB\"]"
B_NOK == "{\"status\":\"nok\"}"
B_TXT == "nok"
B_NONE == ""

\* orjson.loads on those texts: [ok, val]; ok = FALSE is orjson.JSONDecodeError.
Loads(text) ==
    CASE text = B_VOL1 -> [ok |-> TRUE, val |-> JDict([volume |-> JInt(1)])]
      [] text = B_VOL2 -> [ok |-> TRUE, val |-> JDict([volume |-> JInt(2), fppd |-> JStr("running")])]
      [] text = B_OBJ0 -> [ok |-> TRUE, val |-> JDict(EmptyFn)]
      [] text = B_ARR0 -> [ok |-> TRUE, val |-> JList(<<>>)]
      [] text = B_P1   -> [ok |-> TRUE, val |-> JList(<<JStr("p1")>>)]
      [] text = B_P2   -> [ok |-> TRUE, val |-> JList(<<JStr("p1"), JStr("p2")>>)]
      [] text = B_S1   -> [ok |-> TRUE, val |-> JList(<<JStr("introA")>>)]
      [] text = B_S2   -> [ok |-> TRUE, val |-> JList(<<JStr("introA"), JStr("introB")>>)]
      [] text = B_NOK  -> [ok |-> TRUE, val |-> JDict([status |-> JStr("nok")])]
      [] OTHER         -> [ok |-> FALSE, val |-> Null]

\* The characters of a text (what iterating over a Python str yields).
Chars(text) ==
    CASE text = B_TXT -> <<JStr("n"), JStr("o"), JStr("k")>>
      [] OTHER        -> <<>>


\* ------------------------------------------------------------ Content-Type
\* A header value is the sequence of its parts; `in` is substring search and
\* `==` is equality of the whole value.
JSON_TYPE == "application/json"
CT_JSON == <<JSON_TYPE>>
CT_JSON_CHARSET == <<JSON_TYPE, "; charset=utf-8">>
CT_TEXT == <<"text/plain">>
CT_ABSENT == <<>>

\* `"application/json" in content_type`
Contains(ct, part) == \E i \in DOMAIN ct : ct[i] = part

\* ---------------------------------------------------------------- exceptions
\* Variant of Parent: the timeout error derived from FPPError directly.
Parent_TimeoutApart(cls) ==
    CASE cls = "FPPConnectionError"         -> "FPPError"
      [] cls = "FPPConnectionTimeoutError"  -> "FPPError"
      [] cls = "FPPConnectionClosedError"   -> "FPPConnectionError"
      [] cls = "FPPUnsupportedVersionError" -> "FPPError"
      [] cls = "FPPUpgradeError"            -> "FPPError"
      [] OTHER                              -> "Exception"

\* The class each exception class derives from.
Parent(cls) ==
    CASE cls = "FPPError"                   -> "Exception"
      [] cls = "FPPEmptyResponseError"      -> "Exception"
      [] cls = "FPPConnectionError"         -> "FPPError"
      [] cls = "FPPConnectionTimeoutError"  -> "FPPConnectionError"
      [] cls = "FPPConnectionClosedError"   -> "FPPConnectionError"
      [] cls = "FPPUnsupportedVersionError" -> "FPPError"
      [] cls = "FPPUpgradeError"            -> "FPPError"
      [] OTHER                              -> "Exception"

\* isinstance(e, base) for an exception e of class cls.
RECURSIVE IsInstance(_, _)
IsInstance(cls, base) ==
    IF cls = base THEN TRUE
    ELSE IF cls = "Exception" THEN FALSE
    ELSE IsInstance(Parent(cls), base)

NoArgs == <<>>
Exc(cls, args) == [cls |-> cls, args |-> args]
NoExc == Exc("none", NoArgs)

\* --------------------------------------------------------------- the device
HOST == "192.168.2.60"
URI_STATUS == "/api/system/status"
URI_PLAYLISTS == "/api/playlists"
URI_SEQUENCE == "/api/sequence"

Response(status, ctype, body) == [status |-> status, ctype |-> ctype, body |-> body]
NoResponse == Response(0, CT_ABSENT, B_NONE)

\* Answers any endpoint may give with a 4xx or 5xx status.
ErrorResponses ==
    { Response(500, CT_JSON, B_NOK),
      Response(500, CT_JSON_CHARSET, B_NOK),
      Response(404, CT_TEXT, B_TXT),
      Response(500, CT_JSON, B_TXT) }

\* Answers of each endpoint with status 200.
OkResponses(u) ==
    CASE u = URI_STATUS ->
            { Response(200, CT_JSON, B_VOL1),
              Response(200, CT_JSON_CHARSET, B_VOL2),
              Response(200, CT_JSON, B_OBJ0),
              Response(200, CT_TEXT, B_TXT),
              Response(200, CT_JSON, B_TXT) }
      [] u = URI_PLAYLISTS ->
            { Response(200, CT_JSON, B_P1),
              Response(200, CT_JSON, B_P2),
              Response(200, CT_JSON, B_ARR0),
              Response(200, CT_TEXT, B_TXT) }
      [] u = URI_SEQUENCE ->
            { Response(200, CT_JSON, B_S1),
              Response(200, CT_JSON_CHARSET, B_S2),
              Response(200, CT_JSON, B_ARR0),
              Response(200, CT_ABSENT, B_NONE) }

Responses(u) == OkResponses(u) \cup ErrorResponses
AllResponses == UNION {Responses(u) : u \in {URI_STATUS, URI_PLAYLISTS, URI_SEQUENCE}}

\* ------------------------------------------------------------ domain model
\* d.get(key, default) on a decoded dict.
Get(d, key, default) == IF key \in DOMAIN d.v THEN d.v[key] ELSE default

Decoded(val) == [ok |-> TRUE, val |-> val]
DecodeFailure(val) == [ok |-> FALSE, val |-> val]

\* SystemStatus(): every field at its default.
DefaultStatus == [volume |-> 0, fppd |-> ""]

\* SystemStatus.from_dict: fails on anything but a dict, and on a volume
\* that int() does not accept (no numeric strings are among the payloads).
SystemStatus_from_dict(x) ==
    IF x.t # "dict" THEN DecodeFailure(DefaultStatus)
    ELSE LET vol == Get(x, "volume", JInt(0))
             fppd == Get(x, "fppd", JStr(""))
         IN  IF vol.t # "int" THEN DecodeFailure(DefaultStatus)
             ELSE Decoded([volume |-> vol.v, fppd |-> fppd.v])

\* Playlist.from_dict and Sequence.from_dict: fail on anything but a dict.
Playlist_from_dict(x) ==
    IF x.t # "dict" THEN DecodeFailure([name |-> ""])
    ELSE Decoded([name |-> Get(x, "name", JStr("")).v])

Sequence_from_dict(x) ==
    IF x.t # "dict" THEN DecodeFailure([name |-> ""])
    ELSE Decoded([name |-> Get(x, "name", JStr("")).v])

\* The keys of a dict in some order, as str values.
RECURSIVE Keys(_)
Keys(ks) ==
    IF ks = {} THEN <<>>
    ELSE LET k == CHOOSE k \in ks : TRUE IN <<JStr(k)>> \o Keys(ks \ {k})

\* `for name in x`: the elements of a list, the keys of a dict, the
\* characters of a str.
Iter(x) ==
    CASE x.t = "list" -> x.v
      [] x.t = "dict" -> Keys(DOMAIN x.v)
      [] x.t = "str"  -> Chars(x.v)
      [] OTHER        -> <<>>

\* [{"name": name} for name in x]
WrapNames(x) == JList([i \in 1..Len(Iter(x)) |-> JDict([name |-> Iter(x)[i]])])

\* Device.__pre_deserialize__
Device_pre_deserialize(d) ==
    [d EXCEPT !.playlists = IF Truthy(@) THEN WrapNames(@) ELSE @,
              !.sequences = IF Truthy(@) THEN WrapNames(@) ELSE @]

\* [Playlist.from_dict(p) for p in x] and [Sequence.from_dict(s) for s in x]
Playlists_from(x) ==
    LET q == Iter(x)
    IN  [ok |-> \A i \in DOMAIN q : Playlist_from_dict(q[i]).ok,
         val |-> [i \in DOMAIN q |-> Playlist_from_dict(q[i]).val]]

Sequences_from(x) ==
    LET q == Iter(x)
    IN  [ok |-> \A i \in DOMAIN q : Sequence_from_dict(q[i]).ok,
         val |-> [i \in DOMAIN q |-> Sequence_from_dict(q[i]).val]]

\* FPP._device = None
NoDevice == [id |-> 0, system_status |-> DefaultStatus, playlists |-> <<>>, sequences |-> <<>>]

\* Device.from_dict(data): the hook, then the three typed fields; a new
\* object with identity id when all three decode.
Device_from_dict(d, id) ==
    LET e == Device_pre_deserialize(d)
        st == SystemStatus_from_dict(e.system_status)
        pl == IF e.playlists.t = "list" THEN Playlists_from(e.playlists)
              ELSE DecodeFailure(<<>>)
        sq == IF e.sequences.t = "list" THEN Sequences_from(e.sequences)
              ELSE DecodeFailure(<<>>)
    IN  IF st.ok /\ pl.ok /\ sq.ok
        THEN Decoded([id |-> id, system_status |-> st.val,
                      playlists |-> pl.val, sequences |-> sq.val])
        ELSE DecodeFailure(NoDevice)

\* Variant of Device_update_from_dict: the playlists and sequences payloads
\* are assigned as fetched, without from_dict.
Device_update_from_dict_Raw(dev, d) ==
    LET st == IF Truthy(d.system_status) THEN SystemStatus_from_dict(d.system_status)
              ELSE Decoded(dev.system_status)
    IN  IF ~st.ok THEN DecodeFailure(dev)
        ELSE Decoded([dev EXCEPT !.system_status = st.val,
                                 !.playlists = IF Truthy(d.playlists) THEN Iter(d.playlists) ELSE @,
                                 !.sequences = IF Truthy(d.sequences) THEN Iter(d.sequences) ELSE @])

\* Device.update_from_dict(data) on the object dev: the three assignments in
\* order; a failing from_dict leaves the earlier assignments in place.
Device_update_from_dict(dev, d) ==
    LET st == IF Truthy(d.system_status) THEN SystemStatus_from_dict(d.system_status)
              ELSE Decoded(dev.system_status)
        pl == IF Truthy(d.playlists) THEN Playlists_from(d.playlists)
              ELSE Decoded(dev.playlists)
        sq == IF Truthy(d.sequences) THEN Sequences_from(d.sequences)
              ELSE Decoded(dev.sequences)
        d1 == [dev EXCEPT !.system_status = st.val]
        d2 == [d1 EXCEPT !.playlists = pl.val]
        d3 == [d2 EXCEPT !.sequences = sq.val]
    IN  IF ~st.ok THEN DecodeFailure(dev)
        ELSE IF ~pl.ok THEN DecodeFailure(d1)
        ELSE IF ~sq.ok THEN DecodeFailure(d2)
        ELSE Decoded(d3)

\* --------------------------------------------------- record types in full
\* The record types of models.py with every field, for decoding taken alone.
\* (SystemStatus_from_dict, Playlist_from_dict and Sequence_from_dict above
\* are these decoders cut down to the fields the client's runs tell apart.)
JBool(b) == [t |-> "bool", v |-> b]
\* A float, in thousandths.
JFloat(m) == [t |-> "float", v |-> m]
\* field(default_factory=T) for a record type T.
JNew(T) == [t |-> "new", v |-> T]

\* PlaylistItem.duration: float = 220.025, in thousandths
DefaultDuration == 220025

RecordTypes ==
    {"CurrentPlaylist", "MQTTStatus", "SystemStatusAdvanceViewUtilization",
     "SystemStatusAdvanceView", "SystemStatus", "Sequence", "PlaylistItem", "Playlist"}

\* The fields of each dataclass with their declared defaults.
FieldDefaults(T) ==
    CASE T = "CurrentPlaylist" ->
           [count |-> JInt(0), description |-> JStr(""), index |-> JInt(0),
            playlist |-> JStr(""), type |-> JStr("")]
      [] T = "MQTTStatus" ->
           [configured |-> JBool(FALSE), connected |-> JBool(FALSE)]
      [] T = "SystemStatusAdvanceViewUtilization" ->
           [CPU |-> JFloat(0), Memory |-> JFloat(0), Uptime |-> JStr("")]
      [] T = "SystemStatusAdvanceView" ->
           [HostName |-> JStr(""), HostDescription |-> JStr(""), Platform |-> JStr(""),
            Variant |-> JStr(""), Mode |-> JStr(""), Version |-> JStr(""),
            Branch |-> JStr(""), OSVersion |-> JStr(""), OSRelease |-> JStr(""),
            channelRanges |-> JStr(""), majorVersion |-> JInt(0), minorVersion |-> JInt(0),
            typeId |-> JInt(0), Utilization |-> JNew("SystemStatusAdvanceViewUtilization"),
            Kernel |-> JStr(""), LocalGitVersion |-> JStr(""), RemoteGitVersion |-> JStr(""),
            UpgradeSource |-> JStr(""), IPs |-> JList(<<>>)]
      [] T = "SystemStatus" ->
           [MQTT |-> JNew("MQTTStatus"), fppd |-> JStr(""), mode |-> JInt(0),
            mode_name |-> JStr(""), status_name |-> JStr(""), volume |-> JInt(0),
            current_sequence |-> JStr(""), current_song |-> JStr(""),
            current_playlist |-> JNew("CurrentPlaylist"), seconds_played |-> JInt(0),
            seconds_elapsed |-> JInt(0), seconds_remaining |-> JInt(0),
            repeat_mode |-> JInt(0), advancedView |-> JNew("SystemStatusAdvanceView")]
      [] T = "Sequence" ->
           [name |-> JStr("")]
      [] T = "PlaylistItem" ->
           [type |-> JStr(""), enabled |-> JInt(0), playOnce |-> JInt(0),
            sequenceName |-> JStr(""), mediaName |-> JStr(""), videoOut |-> JStr(""),
            timecode |-> JStr(""), duration |-> JFloat(DefaultDuration)]
      [] T = "Playlist" ->
           [name |-> JStr(""), version |-> JInt(0), repeat |-> JInt(0),
            loopCount |-> JInt(0), empty |-> JBool(FALSE), desc |-> JStr(""),
            random |-> JInt(0), leadIn |-> JList(<<>>), mainPlaylist |-> JList(<<>>)]

Fields(T) == DOMAIN FieldDefaults(T)

\* The element type of a list field: list[PlaylistItem] or list[str].
ElemType(T, f) == IF T = "Playlist" /\ f \in {"leadIn", "mainPlaylist"} THEN "PlaylistItem" ELSE "str"

\* T(): the record with every field at its default.
RECURSIVE New(_)
New(T) ==
    [t |-> T,
     v |-> [f \in Fields(T) |->
              LET d == FieldDefaults(T)[f] IN IF d.t = "new" THEN New(d.v) ELSE d]]

\* int(x), float(x), bool(x) and the pass-through of str, as mashumaro
\* applies them to the value of a scalar field.
Coerce(kind, x) ==
    CASE kind = "int" ->
           CASE x.t = "int"   -> Decoded(x)
             [] x.t = "float" -> Decoded(JInt(x.v \div 1000))
             [] x.t = "bool"  -> Decoded(JInt(IF x.v THEN 1 ELSE 0))
             [] OTHER         -> DecodeFailure(Null)
      [] kind = "float" ->
           CASE x.t = "int"   -> Decoded(JFloat(x.v * 1000))
             [] x.t = "float" -> Decoded(x)
             [] x.t = "bool"  -> Decoded(JFloat(IF x.v THEN 1000 ELSE 0))
             [] OTHER         -> DecodeFailure(Null)
      [] kind = "bool" ->
           CASE x.t = "bool"  -> Decoded(x)
             [] x.t = "float" -> Decoded(JBool(x.v # 0))
             [] OTHER         -> Decoded(JBool(Truthy(x)))
      [] OTHER -> Decoded(x)

\* T.from_dict(x): a key that is present is decoded as its field's type
\* says, a key that is missing gets the field's default.
RECURSIVE From_dict(_, _)
From_dict(T, x) ==
    IF x.t # "dict" THEN DecodeFailure(Null)
    ELSE LET one(f) ==
                 LET d == FieldDefaults(T)[f]
                 IN  IF f \notin DOMAIN x.v
                     THEN Decoded(IF d.t = "new" THEN New(d.v) ELSE d)
                     ELSE LET y == x.v[f]
                          IN  CASE d.t = "new" -> From_dict(d.v, y)
                                [] d.t = "list" /\ ElemType(T, f) # "str" ->
                                     IF y.t # "list" THEN DecodeFailure(Null)
                                     ELSE [ok |-> \A i \in DOMAIN y.v :
                                                     From_dict(ElemType(T, f), y.v[i]).ok,
                                           val |-> JList([i \in DOMAIN y.v |->
                                                     From_dict(ElemType(T, f), y.v[i]).val])]
                                [] d.t = "list" ->
                                     IF y.t # "list" THEN DecodeFailure(Null) ELSE Decoded(y)
                                [] OTHER -> Coerce(d.t, y)
         IN  [ok |-> \A f \in Fields(T) : one(f).ok,
              val |-> [t |-> T, v |-> [f \in Fields(T) |-> one(f).val]]]

\* What the device sends under the key f of a record of type T.
SampleOf(T, f) ==
    LET d == FieldDefaults(T)[f]
    IN  CASE d.t = "new"   -> JDict(EmptyFn)
          [] d.t = "list"  -> IF ElemType(T, f) = "str" THEN JList(<<JStr("10.0.0.2")>>)
                              ELSE JList(<<JDict(EmptyFn)>>)
          [] d.t = "int"   -> JInt(4)
          [] d.t = "float" -> JInt(2)
          [] d.t = "bool"  -> JBool(TRUE)
          [] OTHER         -> JStr("x")

\* Nothing is being decoded; nothing has been decoded.
NoPayload == [type |-> "none", dict |-> Null]
NotDecoded == [done |-> FALSE, ok |-> FALSE, val |-> Null]

\* ------------------------------------------------------------------ client
\* The state as one record, so that the steps below compose as the
\* coroutines do: a step is a function from the state to the next state.
Cur ==
    [session |-> session, close_session |-> close_session, closed |-> closed,
     device |-> device, nextId |-> nextId, call |-> call, ustep |-> ustep,
     data |-> data, uri |-> uri, tries |-> tries, rpc |-> rpc, resp |-> resp,
     result |-> result, issued |-> issued, seen |-> seen, before |-> before,
     rets |-> rets, inScope |-> inScope, ncalls |-> ncalls, inflight |-> inflight, attemptExc |-> attemptExc, prevOk |-> prevOk]

Becomes(s) ==
    /\ session' = s.session /\ close_session' = s.close_session
    /\ closed' = s.closed /\ device' = s.device /\ nextId' = s.nextId
    /\ call' = s.call /\ ustep' = s.ustep /\ data' = s.data /\ uri' = s.uri
    /\ tries' = s.tries /\ rpc' = s.rpc /\ resp' = s.resp
    /\ result' = s.result /\ issued' = s.issued /\ seen' = s.seen
    /\ before' = s.before /\ rets' = s.rets /\ inScope' = s.inScope
    /\ ncalls' = s.ncalls /\ inflight' = s.inflight
    /\ attemptExc' = s.attemptExc /\ prevOk' = s.prevOk
    /\ UNCHANGED <<payload, decoded>>

NoData == [system_status |-> Null, playlists |-> Null, sequences |-> Null]
NoResult == [op |-> "none", how |-> "none", val |-> Null, dev |-> 0, exc |-> NoExc, tries |-> 0]
NotSeen == [uri |-> "", resp |-> NoResponse, try |-> 0]

\* The public call s.call ends: it returns (how = "returned") the value val
\* or the Device dev, or raises (how = "raised") exc.
EndCall(s, how, val, dev, exc) ==
    [s EXCEPT !.call = "none", !.ustep = "none", !.rpc = "idle",
              !.resp = NoResponse,
              !.result = [op |-> s.call, how |-> how, val |-> val, dev |-> dev,
                          exc |-> exc, tries |-> s.tries],
              !.rets = IF s.call = "update" /\ how = "returned" THEN Append(@, dev) ELSE @]

\* update(), order of the three fetches.
KeyUri(key) ==
    CASE key = "system_status" -> URI_STATUS
      [] key = "playlists"     -> URI_PLAYLISTS
      [] key = "sequences"     -> URI_SEQUENCE

\* Variant of NextKey: sequences fetched before playlists.
NextKey_SequencesFirst(key) ==
    CASE key = "system_status" -> "sequences"
      [] key = "sequences"     -> "playlists"
      [] OTHER                 -> "none"

NextKey(key) ==
    CASE key = "system_status" -> "playlists"
      [] key = "playlists"     -> "sequences"
      [] OTHER                 -> "none"

\* Variant of Retried: no max_tries.
Retried_NoLimit(exc, n) == IsInstance(exc.cls, "FPPConnectionError")

\* Variant of Retried: max_tries taken for the number of retries allowed
\* after the first try but one.
Retried_OneShort(exc, n) == IsInstance(exc.cls, "FPPConnectionError") /\ n + 1 < MaxTries

\* backoff.on_exception: whether the exception of try number n is retried.
Retried(exc, n) == IsInstance(exc.cls, "FPPConnectionError") /\ n # MaxTries

\* An attempt of request() raised exc: backoff sleeps and tries again, or
\* the exception leaves request() and, uncaught by update(), the public call.
AttemptRaised(s, exc) ==
    IF Retried(exc, s.tries)
    THEN [s EXCEPT !.rpc = "sleeping", !.resp = NoResponse, !.attemptExc = exc]
    ELSE EndCall([s EXCEPT !.attemptExc = exc], "raised", Null, 0, exc)

\* The body of request() up to its first wait: the session is created when
\* there is none; a closed session refuses the request (aiohttp raises
\* RuntimeError), otherwise the HTTP exchange is on the wire.
RequestBody(s) ==
    LET s1 == IF s.session = "none"
              THEN [s EXCEPT !.session = "own", !.close_session = TRUE]
              ELSE s
    IN  IF s1.session \in s1.closed
        THEN AttemptRaised(s1, Exc("RuntimeError", <<JStr("Session is closed")>>))
        ELSE [s1 EXCEPT !.rpc = "connecting", !.inflight = @ \cup {s1.uri}]

\* request(uri) is called: backoff's first try.
Request(s, u) == RequestBody([s EXCEPT !.uri = u, !.tries = 1, !.attemptExc = NoExc])

\* The tail of update() once the three payloads are in `data`.
UpdateDevice(s, d) ==
    IF s.device.id = 0
    THEN LET r == Device_from_dict(d, s.nextId)
         IN  IF r.ok
             THEN EndCall([s EXCEPT !.device = r.val, !.nextId = @ + 1],
                          "returned", Null, r.val.id, NoExc)
             ELSE EndCall(s, "raised", Null, 0, Exc("DecodeError", NoArgs))
    ELSE LET r == Device_update_from_dict(s.device, d)
         IN  IF r.ok
             THEN EndCall([s EXCEPT !.device = r.val], "returned", Null, r.val.id, NoExc)
             ELSE EndCall([s EXCEPT !.device = r.val], "raised", Null, 0,
                          Exc("DecodeError", NoArgs))

\* update() calls request() for key.
UpdateFetch(s, key) ==
    Request([s EXCEPT !.ustep = key, !.issued = Append(@, KeyUri(key))], KeyUri(key))

\* Variant of UpdateResume: no check for an empty answer.
UpdateResume_NoEmptyCheck(s, v) ==
    LET d == [s.data EXCEPT ![s.ustep] = v]
        s1 == [s EXCEPT !.data = d]
    IN  IF NextKey(s.ustep) # "none"
        THEN UpdateFetch(s1, NextKey(s.ustep))
        ELSE UpdateDevice(s1, d)

\* Variant of UpdateResume: the status payload is put into the held Device
\* as soon as it is fetched.
UpdateResume_EagerStatus(s, v) ==
    IF ~Truthy(v)
    THEN EndCall(s, "raised", Null, 0,
                 Exc("FPPEmptyResponseError", <<JStr(HOST), JStr(s.ustep)>>))
    ELSE LET d == [s.data EXCEPT ![s.ustep] = v]
             early == s.ustep = "system_status" /\ s.device.id # 0
                      /\ SystemStatus_from_dict(v).ok
             s1 == [s EXCEPT !.data = d,
                             !.device = IF early
                                        THEN [@ EXCEPT !.system_status =
                                                  SystemStatus_from_dict(v).val]
                                        ELSE @]
         IN  IF NextKey(s.ustep) # "none"
             THEN UpdateFetch(s1, NextKey(s.ustep))
             ELSE UpdateDevice(s1, d)

\* update() resumes with the value v of `await self.request(...)`.
UpdateResume(s, v) ==
    IF ~Truthy(v)
    THEN EndCall(s, "raised", Null, 0,
                 Exc("FPPEmptyResponseError", <<JStr(HOST), JStr(s.ustep)>>))
    ELSE LET d == [s.data EXCEPT ![s.ustep] = v]
             s1 == [s EXCEPT !.data = d]
         IN  IF NextKey(s.ustep) # "none"
             THEN UpdateFetch(s1, NextKey(s.ustep))
             ELSE UpdateDevice(s1, d)

\* request() returns v to whoever awaits it.
RequestReturned(s, v) ==
    IF s.call = "update" THEN UpdateResume(s, v)
    ELSE EndCall(s, "returned", v, 0, NoExc)

\* The lines of request() after the response r has arrived in full: what
\* they return, or the exception they raise.
HandleResponse(r) ==
    IF r.status \div 100 \in {4, 5}
    THEN IF r.ctype = CT_JSON
         THEN IF Loads(r.body).ok
              THEN [ok |-> FALSE, val |-> Null,
                    exc |-> Exc("FPPError", <<JInt(r.status), Loads(r.body).val>>)]
              ELSE [ok |-> FALSE, val |-> Null, exc |-> Exc("JSONDecodeError", NoArgs)]
         ELSE [ok |-> FALSE, val |-> Null,
               exc |-> Exc("FPPError", <<JInt(r.status), JDict([message |-> JStr(r.body)])>>)]
    ELSE IF Contains(r.ctype, JSON_TYPE)
         THEN IF Loads(r.body).ok
              THEN [ok |-> TRUE, val |-> Loads(r.body).val, exc |-> NoExc]
              ELSE [ok |-> FALSE, val |-> Null, exc |-> Exc("JSONDecodeError", NoArgs)]
         ELSE [ok |-> TRUE, val |-> JStr(r.body), exc |-> NoExc]

\* ----------------------------------------------------------------- actions
Uris == {URI_STATUS, URI_PLAYLISTS, URI_SEQUENCE}

\* FPP(host) or FPP(host, session=session)
ClientInit ==
    /\ session \in {"none", "supplied"}
    /\ close_session = FALSE
    /\ closed = {}
    /\ device = NoDevice
    /\ nextId = 1
    /\ call = "none" /\ ustep = "none" /\ data = NoData
    /\ uri = "" /\ tries = 0 /\ rpc = "idle" /\ resp = NoResponse
    /\ result = NoResult
    /\ issued = <<>> /\ seen = NotSeen /\ before = NoDevice /\ rets = <<>>
    /\ inScope = FALSE /\ inflight = {} /\ ncalls = 0
    /\ attemptExc = NoExc /\ prevOk = FALSE

\* The client as constructed; nothing is being decoded on its own.
Init == ClientInit /\ payload = NoPayload /\ decoded = NotDecoded

\* A public call begins: the history of the call before it is dropped.
Begin(op) ==
    [Cur EXCEPT !.call = op, !.ncalls = @ + 1, !.data = NoData, !.result = NoResult,
                !.issued = <<>>, !.seen = NotSeen,
                !.attemptExc = NoExc, !.before = device,
                !.prevOk = (result.op = "update" /\ result.how = "returned")]

\* The caller awaits request(u).
CallRequest(u) ==
    /\ call = "none" /\ ncalls < MaxCalls
    /\ Becomes(Request(Begin("request"), u))

\* The caller awaits update().
CallUpdate ==
    /\ call = "none" /\ ncalls < MaxCalls
    /\ Becomes(UpdateFetch(Begin("update"), "system_status"))

\* `await self.session.request(...)` returns: status line and headers of the
\* response r are in, inside the timeout block.
HeadersArrive(r) ==
    /\ rpc = "connecting"
    /\ r \in Responses(uri)
    /\ Becomes([Cur EXCEPT !.rpc = "reading", !.resp = r])

\* `await response.read()` or `await response.text()` returns the body.
BodyArrives ==
    /\ rpc = "reading"
    /\ LET s == [Cur EXCEPT !.inflight = @ \ {uri},
                            !.seen = [uri |-> uri, resp |-> resp, try |-> tries]]
           h == HandleResponse(resp)
       IN  Becomes(IF h.ok THEN RequestReturned(s, h.val) ELSE AttemptRaised(s, h.exc))

\* asyncio.timeout(self.request_timeout) expires while the request waits for
\* the response: except asyncio.TimeoutError.
Timeout ==
    /\ rpc = "connecting"
    /\ Becomes(AttemptRaised([Cur EXCEPT !.inflight = @ \ {uri}],
                             Exc("FPPConnectionTimeoutError", <<JStr(HOST)>>)))

\* The session's own timeout (aiohttp's ClientTimeout: 5 minutes in total for
\* the session the client creates, whatever the caller configured on a
\* supplied one, possibly none) expires while the request waits for the
\* headers or for the body: asyncio.TimeoutError again.
SessionTimeout ==
    /\ rpc \in {"connecting", "reading"}
    /\ Becomes(AttemptRaised([Cur EXCEPT !.inflight = @ \ {uri}],
                             Exc("FPPConnectionTimeoutError", <<JStr(HOST)>>)))

\* aiohttp.ClientError or socket.gaierror while connecting or while the body
\* is read: except (aiohttp.ClientError, socket.gaierror).
TransportError ==
    /\ rpc \in {"connecting", "reading"}
    /\ Becomes(AttemptRaised([Cur EXCEPT !.inflight = @ \ {uri}],
                             Exc("FPPConnectionError", <<JStr(HOST)>>)))

\* backoff's sleep ends: the next try runs request() again.
Retry ==
    /\ rpc = "sleeping"
    /\ Becomes(RequestBody([Cur EXCEPT !.tries = @ + 1]))

\* Variant of CloseSession: _close_session not consulted.
CloseSession_Always(s) ==
    IF s.session # "none"
    THEN [s EXCEPT !.closed = @ \cup {s.session}]
    ELSE s

\* close()
CloseSession(s) ==
    IF s.session # "none" /\ s.close_session
    THEN [s EXCEPT !.closed = @ \cup {s.session}]
    ELSE s

Closed == [op |-> "close", how |-> "returned", val |-> Null, dev |-> 0, exc |-> NoExc, tries |-> 0]

Close ==
    /\ call = "none" /\ ncalls < MaxCalls
    /\ Becomes(CloseSession([Begin("none") EXCEPT !.result = Closed]))

\* __aenter__ (`async with FPP(...) as fpp:` enters the object it has just
\* constructed; entering changes nothing of the object)
Enter ==
    /\ call = "none" /\ ~inScope /\ ncalls = 0 /\ closed = {}
    /\ Becomes([Cur EXCEPT !.inScope = TRUE])

\* Variant of Exit: the scope is left without close().
Exit_NoClose ==
    /\ call = "none" /\ inScope
    /\ Becomes([Begin("none") EXCEPT !.inScope = FALSE, !.ncalls = ncalls,
                                     !.result = [Closed EXCEPT !.exc = result.exc]])

\* __aexit__(*_exc_info), after the body returned or raised: result.exc keeps
\* _exc_info, the exception the body ended with (NoExc when it returned).
Exit ==
    /\ call = "none" /\ inScope
    /\ Becomes(CloseSession([Begin("none") EXCEPT !.inScope = FALSE, !.ncalls = ncalls,
                                                  !.result = [Closed EXCEPT !.exc = result.exc]]))

Next ==
    \/ \E u \in Uris : CallRequest(u)
    \/ CallUpdate
    \/ \E r \in AllResponses : HeadersArrive(r)
    \/ BodyArrives
    \/ Timeout
    \/ SessionTimeout
    \/ TransportError
    \/ Retry
    \/ Close
    \/ Enter
    \/ Exit

Spec == Init /\ [][Next]_vars

\* ---------------------------------------------------------- decoding alone
\* The decoders of the record types applied to payloads that lack keys.
\* A payload has at most MaxMissing of the keys of its type missing.
MaxMissing == 2

PayloadsOf(T) ==
    {JDict([f \in Fields(T) \ D |-> SampleOf(T, f)]) :
        D \in {E \in SUBSET Fields(T) : Cardinality(E) <= MaxMissing}}

clientVars == <<session, close_session, closed, device, nextId, call, ustep, data, uri,
                tries, rpc, resp, result, issued, seen, before, rets, inScope, inflight,
                attemptExc, prevOk, ncalls>>

DecodeInit ==
    /\ ClientInit
    /\ payload \in UNION {{[type |-> T, dict |-> x] : x \in PayloadsOf(T)} : T \in RecordTypes}
    /\ decoded = NotDecoded

\* T.from_dict(payload)
DecodeRecord(T) ==
    /\ payload.type = T /\ ~decoded.done
    /\ decoded' = [done |-> TRUE, ok |-> From_dict(T, payload.dict).ok,
                                  val |-> From_dict(T, payload.dict).val]
    /\ UNCHANGED <<payload, clientVars>>

DecodeNext == \E T \in RecordTypes : DecodeRecord(T)

DecodeSpec == DecodeInit /\ [][DecodeNext]_vars

\* ------------------------------------------------------------------ claims
\* The last public call was update(), or request(), and it is over.
UpdateOver == call = "none" /\ result.op = "update"
RequestOver == call = "none" /\ result.op = "request"
Raised(cls) == result.how = "raised" /\ result.exc.cls = cls

\* x is a bare list of name strings, as the list endpoints send it.
BareNames(x) == x.t = "list" /\ Len(x.v) > 0 /\ \A i \in DOMAIN x.v : x.v[i].t = "str"

\* The records named after the strings of x, in the order of x.
Named(x) == [i \in DOMAIN x.v |-> [name |-> x.v[i].v]]

\* update() fetched three non-empty payloads of the documented shapes.
FetchedWell ==
    /\ data.system_status.t = "dict" /\ Truthy(data.system_status)
    /\ BareNames(data.playlists)
    /\ BareNames(data.sequences)

\* C1: of two consecutive update() calls that both fetch three non-empty
\* payloads (bare name lists), the second returns normally, returns the
\* Device object the first returned, and that Device shows the volume of
\* the second call's status payload.
C1_SecondUpdateSameDevice ==
    (UpdateOver /\ prevOk /\ FetchedWell)
        => /\ result.how = "returned"
           /\ result.dev = rets[Len(rets) - 1]
           /\ device.id = result.dev
           /\ device.system_status.volume = Get(data.system_status, "volume", JInt(0)).v

\* C2: on the construction path and on the update path alike, the bare
\* names of the playlists and sequences payloads are wrapped into
\* {name: <string>} records before decoding, so update() ends with the
\* Playlist and Sequence records named after the payload, in its order.
C2_BareNamesWrapped ==
    (UpdateOver /\ FetchedWell)
        => /\ result.how = "returned"
           /\ device.playlists = Named(data.playlists)
           /\ device.sequences = Named(data.sequences)

\* The construction path alone does wrap the names: the first update()
\* (no Device yet) ends with the records named after the payload.
FirstUpdateWrapsNames ==
    (UpdateOver /\ FetchedWell /\ before.id = 0)
        => /\ result.how = "returned"
           /\ device.playlists = Named(data.playlists)
           /\ device.sequences = Named(data.sequences)

\* The attempt of the running request() gets its body in this step.
BodyStep == rpc = "reading" /\ seen' # seen

\* The response r decodes to an empty (falsy) value.
EmptyAnswer(r) == HandleResponse(r).ok /\ ~Truthy(HandleResponse(r).val)

\* C3: when the answer to one of the three requests of update() is empty,
\* update() raises EmptyResponseError in that very step and the requests
\* after it in the order status, playlists, sequences are not issued.
C3_EmptyStopsUpdate ==
    [][(call = "update" /\ BodyStep /\ EmptyAnswer(resp))
          => /\ call' = "none"
             /\ result'.how = "raised"
             /\ result'.exc.cls = "FPPEmptyResponseError"
             /\ issued' = issued
             /\ inflight' = {}]_vars

C3_Witness ==
    /\ UpdateOver /\ Raised("FPPEmptyResponseError")
    /\ issued = <<URI_STATUS, URI_PLAYLISTS>>
    /\ EmptyAnswer(seen.resp)

\* C4: with a Device already held, an update() that gets a non-empty
\* system_status payload and then an empty playlists payload raises
\* EmptyResponseError and leaves every field of the Device as it was.
C4_EmptyPlaylistsNoMutation ==
    (UpdateOver /\ before.id # 0 /\ seen.uri = URI_PLAYLISTS /\ EmptyAnswer(seen.resp))
        => /\ Raised("FPPEmptyResponseError")
           /\ device = before

C4_Witness ==
    /\ UpdateOver /\ before.id # 0 /\ seen.uri = URI_PLAYLISTS /\ EmptyAnswer(seen.resp)
    /\ data.system_status.t = "dict" /\ Truthy(data.system_status)
    /\ Get(data.system_status, "volume", JInt(0)).v # before.system_status.volume

\* C5: update() issues its requests in the order /api/system/status,
\* /api/playlists, /api/sequence, each only when the one before is
\* complete: no two exchanges of one update() are on the wire together.
FetchOrder == <<URI_STATUS, URI_PLAYLISTS, URI_SEQUENCE>>

C5_SequentialFixedOrder ==
    /\ Cardinality(inflight) <= 1
    /\ Len(issued) <= Len(FetchOrder)
    /\ \A i \in DOMAIN issued : issued[i] = FetchOrder[i]
    /\ (call = "update" => inflight \subseteq {issued[Len(issued)]})

C5_Witness ==
    call = "update" /\ issued = FetchOrder /\ inflight = {URI_SEQUENCE} /\ rpc = "reading"

\* C6: a request() whose attempts fail with ConnectionError is tried again
\* until it succeeds or 3 attempts have been made; the ConnectionError
\* reaches the caller only after the third attempt, and a request() that
\* succeeds on attempt 1, 2 or 3 returns the result of that attempt.
C6_RetryConnectionError ==
    /\ tries <= MaxTries
    /\ (rpc = "sleeping" => tries < MaxTries)
    /\ (call = "none" /\ Raised("FPPConnectionError")) => result.tries = MaxTries
    /\ (RequestOver /\ result.how = "returned")
          => /\ result.tries \in 1..MaxTries
             /\ seen.try = result.tries
             /\ result.val = HandleResponse(seen.resp).val

C6_Witness ==
    RequestOver /\ Raised("FPPConnectionError") /\ result.tries = MaxTries

SeenHttpError == seen.try > 0 /\ seen.resp.status \div 100 \in {4, 5}

\* C8: a request() that receives a 4xx or 5xx response is not retried: the
\* attempt that received it is the last one, and request() raises
\* GenericError (FPPError), which is no ConnectionError.
C8_HttpErrorNotRetried ==
    SeenHttpError
        => /\ call = "none"
           /\ result.tries = seen.try
           /\ Raised("FPPError")
           /\ ~IsInstance(result.exc.cls, "FPPConnectionError")

\* What holds of every 4xx or 5xx response: the attempt that received it is
\* the last one and what request() raises is no ConnectionError.
HttpErrorEndsRequest ==
    SeenHttpError
        => /\ call = "none"
           /\ result.tries = seen.try
           /\ result.how = "raised"
           /\ ~IsInstance(result.exc.cls, "FPPConnectionError")

\* The Content-Type ct is JSON, with or without parameters.
IsJson(ct) == Contains(ct, JSON_TYPE)

\* C9: for a 4xx or 5xx response request() raises GenericError with the
\* status code and, as second item, the decoded JSON body when the content
\* type is JSON (parameters such as a charset included), the raw text
\* otherwise.  Stated for the responses whose JSON body can be decoded.
C9_ErrorCarriesDecodedBody ==
    (SeenHttpError /\ call = "none" /\ (IsJson(seen.resp.ctype) => Loads(seen.resp.body).ok))
        => /\ Raised("FPPError")
           /\ result.exc.args[1] = JInt(seen.resp.status)
           /\ result.exc.args[2] =
                 IF IsJson(seen.resp.ctype) THEN Loads(seen.resp.body).val
                 ELSE JDict([message |-> JStr(seen.resp.body)])

\* C10: the client never closes a session the caller supplied, and close()
\* closes the session the client created itself.
C10_SessionOwnership ==
    /\ "supplied" \notin closed
    /\ (session = "supplied" => ~close_session)
    /\ (result.op = "close" /\ session = "own") => "own" \in closed

C10_Witness ==
    result.op = "close" /\ session = "own" /\ closed = {"own"} /\ ncalls >= 2

\* -------------------------------------------------------------------------
\* C11: leaving the `async with` scope closes the session the client created
\* itself, whether the body returned or raised; the step that leaves the
\* scope never leaves an owned session open, and it closes no supplied one.
C11_ExitClosesOwnSession ==
    [][(inScope /\ ~inScope') =>
          /\ session' = session
          /\ (session = "own" => "own" \in closed')
          /\ (session = "supplied" => closed' = closed)]_vars

\* The scope was left after the body raised, and the owned session is closed.
C11_Witness ==
    /\ ~inScope /\ result.op = "close" /\ result.exc # NoExc
    /\ session = "own" /\ "own" \in closed

\* -------------------------------------------------------------------------
\* C12: an update() made when a Device exists, having fetched three
\* non-empty payloads, leaves each field equal to the decoding of its own
\* payload: the status record of the status payload and nothing of the old
\* one, the Playlist and Sequence records named after the fetched names.
C12_FieldsReplacedWhole ==
    (UpdateOver /\ before.id # 0 /\ FetchedWell)
        => /\ device.system_status = SystemStatus_from_dict(data.system_status).val
           /\ device.playlists = Named(data.playlists)
           /\ device.sequences = Named(data.sequences)

\* The part of C12 the code keeps: system_status is replaced as a whole (a
\* key the new payload lacks falls back to its default, not to the old value).
StatusReplacedWhole ==
    (UpdateOver /\ before.id # 0 /\ FetchedWell)
        => device.system_status = SystemStatus_from_dict(data.system_status).val

\* -------------------------------------------------------------------------
\* C13 as stated: a timeout inside update() stops only the request it hit,
\* so an update() that ended with ConnectionTimeoutError has still issued
\* all three requests.
C13_TimeoutKeepsUpdateGoing ==
    (UpdateOver /\ Raised("FPPConnectionTimeoutError")) => issued = FetchOrder

\* A timeout expires on the attempt in flight in this step.
TimeoutStep ==
    /\ rpc \in {"connecting", "reading"} /\ rpc' # "reading" /\ seen' = seen
    /\ attemptExc'.cls = "FPPConnectionTimeoutError"

\* C13 as amended: a timeout inside update() ends the attempt in flight; the
\* same request is tried again while tries remain, and when the last try
\* times out the ConnectionTimeoutError ends update() in that step: no later
\* request of that update() is issued and the Device is as it was.
C13_TimeoutEndsUpdate ==
    [][(call = "update" /\ TimeoutStep) =>
          /\ issued' = issued /\ device' = device
          /\ IF tries < MaxTries
             THEN call' = "update" /\ rpc' = "sleeping" /\ uri' = uri
             ELSE /\ call' = "none" /\ inflight' = {}
                  /\ result'.op = "update" /\ result'.how = "raised"
                  /\ result'.exc.cls = "FPPConnectionTimeoutError"]_vars

\* update() ended with the timeout of its second request: the third was
\* never issued.
C13_Witness ==
    /\ UpdateOver /\ Raised("FPPConnectionTimeoutError")
    /\ issued = <<URI_STATUS, URI_PLAYLISTS>> /\ result.tries = MaxTries

\* -------------------------------------------------------------------------
\* C14: at every stage at which request() waits for the device, for the
\* response headers or for the body, the configured request timeout is
\* running: its expiry is a step the waiting request can take.
C14_TimeoutCoversRequest ==
    rpc \in {"connecting", "reading"} => ENABLED Timeout

\* The part of C14 the code keeps: while request() waits for the headers the
\* configured timeout is running.
TimeoutCoversHeaders ==
    rpc = "connecting" => ENABLED Timeout

\* -------------------------------------------------------------------------
\* x is a SystemStatus record; x is a Playlist or Sequence record.
IsSystemStatus(x) == DOMAIN x = {"volume", "fppd"} /\ x.volume \in Int /\ x.fppd \in STRING
IsNamedRecord(x) == DOMAIN x = {"name"} /\ x.name \in STRING

\* C15: once a Device exists, in every state, whatever update() calls came
\* after and however they ended, its system_status is a SystemStatus record
\* and its playlists and sequences are lists of Playlist and of Sequence
\* records: no field is absent, null or a payload as fetched.
C15_DeviceFieldsTyped ==
    device.id # 0
        => /\ IsSystemStatus(device.system_status)
           /\ DOMAIN device.playlists = 1..Len(device.playlists)
           /\ \A i \in DOMAIN device.playlists : IsNamedRecord(device.playlists[i])
           /\ DOMAIN device.sequences = 1..Len(device.sequences)
           /\ \A i \in DOMAIN device.sequences : IsNamedRecord(device.sequences[i])

\* A later update() failed after it had changed the Device.
C15_Witness ==
    /\ UpdateOver /\ result.how = "raised" /\ before.id # 0
    /\ device # before /\ device.id = before.id

\* -------------------------------------------------------------------------
\* The zero-like value of its kind: 0, 0.0, "", [], False, and a nested
\* record whose fields are all zero-like.
RECURSIVE ZeroLike(_)
ZeroLike(x) ==
    CASE x.t = "int"   -> x.v = 0
      [] x.t = "float" -> x.v = 0
      [] x.t = "str"   -> x.v = ""
      [] x.t = "list"  -> x.v = <<>>
      [] x.t = "bool"  -> x.v = FALSE
      [] x.t \in RecordTypes -> \A f \in DOMAIN x.v : ZeroLike(x.v[f])
      [] OTHER -> FALSE

\* The keys of its type the decoded payload lacks.
MissingKeys == Fields(payload.type) \ DOMAIN payload.dict.v

\* C16: decoding a payload that lacks keys does not fail, and every field
\* whose key is missing has the zero-like value of its kind.
C16_MissingKeyZeroDefault ==
    decoded.done
        => /\ decoded.ok
           /\ \A f \in MissingKeys : ZeroLike(decoded.val.v[f])

\* The part of C16 the code keeps: decoding with keys missing never fails,
\* and every field but PlaylistItem.duration gets its zero-like default.
MissingKeyDefaultButDuration ==
    decoded.done
        => /\ decoded.ok
           /\ \A f \in MissingKeys :
                  \/ payload.type = "PlaylistItem" /\ f = "duration"
                  \/ ZeroLike(decoded.val.v[f])

\* -------------------------------------------------------------------------
\* C17: an update() that ended by raising, whatever it raised, left the
\* held Device exactly as it was when update() was called (and left none
\* where none was held).
C17_UpdateAllOrNothing ==
    (UpdateOver /\ result.how = "raised") => device = before

\* The part of C17 the code keeps: an update() that raised before it reached
\* update_from_dict (a failed request, an empty answer), or while it was
\* constructing the first Device, changed nothing.
FailedFetchChangesNothing ==
    (UpdateOver /\ result.how = "raised" /\ (before.id = 0 \/ result.exc.cls # "DecodeError"))
        => device = before

\* -------------------------------------------------------------------------
\* C18: a Device held by the client, produced or refreshed by update(), has
\* at least one playlist and at least one sequence; an update() whose
\* playlists or sequences request was answered with an empty list (or any
\* other empty answer) ended with EmptyResponseError.
C18_NoEmptyLists ==
    /\ device.id # 0 => Len(device.playlists) > 0 /\ Len(device.sequences) > 0
    /\ (UpdateOver /\ seen.try > 0 /\ seen.uri \in {URI_PLAYLISTS, URI_SEQUENCE}
            /\ EmptyAnswer(seen.resp))
          => Raised("FPPEmptyResponseError")

\* With a Device held, the sequences request was answered [] and update()
\* ended with EmptyResponseError.
C18_Witness ==
    /\ UpdateOver /\ Raised("FPPEmptyResponseError") /\ device.id # 0
    /\ seen.uri = URI_SEQUENCE /\ seen.resp.status = 200 /\ seen.resp.body = B_ARR0

====
